---- MODULE Spec2Model ----
(***************************************************************************)
(* Model of the frontend Logger (src/frontend/lib/logger.ts): the bounded  *)
(* in-memory history, the localStorage store of warn/error entries and the *)
(* pending-send queue with its size-, timer-, manual- and unload-triggered *)
(* flushes.  One action is one run-to-completion job of the JavaScript     *)
(* event loop: a log call, a timer callback, the beforeunload listener, a  *)
(* call of sendLogsToBackend up to its await, or the continuation that     *)
(* runs when a fetch settles.                                              *)
(*                                                                         *)
(* The host is chosen at construction: with or without a window (no window *)
(* means no timer, no beforeunload listener and no localStorage access),   *)
(* in development mode or not, and with a transport that is absent (fetch  *)
(* is not defined, so the call throws inside the try block and the catch   *)
(* block re-queues at once), down, or up.  Entries are told apart by id,   *)
(* the number of the log call that created them; entries an earlier        *)
(* session stored have ids <= 0.  The logger keeps no record of the        *)
(* beforeunload event and never clears its timer, so jobs may follow a run *)
(* of the listener (the navigation was cancelled, or later unload handlers *)
(* log): `unloaded` only remembers that the listener has run.              *)
(*                                                                         *)
(* Spec follows the logger in every host whose storage works; SpecStorage  *)
(* builds it where a storage operation fails, SpecQuery calls getHistory   *)
(* on rehydrated histories, and SpecLive adds an environment that settles  *)
(* and the fairness of the timer and of the request continuations.         *)
(***************************************************************************)
EXTENDS Integers, Sequences, FiniteSets

VARIABLES
    hasWindow,      \* typeof window !== 'undefined' in this host
    transport,      \* "none": the host defines no fetch, calling it throws;
                    \* "down": every request fails; "up": a request may
                    \* settle either way
    isDevelopment,  \* process.env.NODE_ENV === 'development'
    storage,        \* the localStorage item under localStorageKey
    logHistory,     \* Logger.logHistory
    pendingLogs,    \* Logger.pendingLogs
    sendLogsTimer,  \* TRUE when setInterval was called (timer running)
    inflight,       \* fetch requests not settled yet, each owning its batch
    unloaded,       \* the beforeunload listener has run at least once
    nLogs,          \* log calls made so far (the id of the newest entry)
    nOther,         \* log calls so far whose level was not warn
    nCalls,         \* timer callbacks, beforeunload events and calls of
                    \* sendLogsToBackend so far that found entries to send
    appended,       \* every entry put into logHistory since it was last reset
    last,           \* what the most recent job did
    query,          \* the most recent call of getHistory and what it returned
    delivered,      \* ids of the entries in batches the endpoint accepted
    lost,           \* ids of the entries a re-queue cut off
    quiet           \* the environment has settled: from now on no warn or
                    \* error call is made and every delivery succeeds

vars == <<hasWindow, transport, isDevelopment, storage, logHistory, pendingLogs,
          sendLogsTimer, inflight, unloaded, nLogs, nOther, nCalls,
          appended, last, query, delivered, lost, quiet>>

host == <<hasWindow, transport, isDevelopment, sendLogsTimer>>

hasFetch == transport # "none"

-----------------------------------------------------------------------------
(* Program constants *)

maxHistorySize == 100

maxLocalStorageSize == 500

FlushThreshold == 10

RetryCap == 100

(* Bounds of the exploration *)

\* Timer callbacks, beforeunload events and sendLogsToBackend calls, taken
\* together, that find entries to send (those that find none are not
\* counted: they change nothing)
MaxCalls == 1

\* While every delivery fails (transport "none" or "down") the queue is
\* followed up to its cap: MaxLogs log calls, all of level warn, with
\* MaxInFlightOutage requests under way at once
MaxLogs == 102

MaxInFlightOutage == 1

\* While deliveries may succeed (transport "up") the interleavings are
\* followed over MaxLogsUp log calls, MaxOther of them of another level than
\* warn, with MaxInFlight requests under way at once
MaxLogsUp == 11

MaxOther == 1

MaxInFlight == 2

\* getHistory is called on the histories rehydrated from stored lists of up
\* to MaxStored entries, with limits up to MaxLimit
MaxStored == 8

MaxLimit == 3

-----------------------------------------------------------------------------
(* Entries and array helpers *)

LogLevel == {"debug", "info", "warn", "error"}

Min(a, b) == IF a < b THEN a ELSE b

Max(a, b) == IF a > b THEN a ELSE b

\* Array.prototype.slice(0, n) for n >= 0
SliceHead(s, n) == SubSeq(s, 1, Min(n, Len(s)))

\* Array.prototype.slice(-n) for n > 0
SliceTail(s, n) == SubSeq(s, Max(1, Len(s) - n + 1), Len(s))

\* Array.prototype.shift(): the array without its first element
Shift(s) == SubSeq(s, 2, Len(s))

Range(s) == {s[i] : i \in 1..Len(s)}

Ids(s) == {s[i].id : i \in 1..Len(s)}

\* The entry log() builds; id stands for its timestamp and content
LogEntry(id, level) == [id |-> id, level |-> level, enriched |-> FALSE]

\* The copy persistToLocalStorage stores: userAgent, url and stack added
EnrichedEntry(entry) == [entry EXCEPT !.enriched = TRUE]

\* What an earlier session of this code left in localStorage: k enriched
\* warn/error entries, older than every entry of this session (ids <= 0)
StoredList(k) ==
    [i \in 1..k |->
        [id |-> i - k, level |-> IF i % 2 = 0 THEN "warn" ELSE "error",
         enriched |-> TRUE]]

Absent == [kind |-> "absent", logs |-> <<>>]

Malformed == [kind |-> "malformed", logs |-> <<>>]

Stored(logs) == [kind |-> "list", logs |-> logs]

\* A host whose storage refuses access: localStorage.getItem throws
Denied == [kind |-> "denied", logs |-> <<>>]

\* A stored list in a storage that is out of quota: it reads and parses, and
\* localStorage.setItem throws
Full(logs) == [kind |-> "full", logs |-> logs]

\* The item the constructor may find: none, one that does not parse, or a
\* full list
InitialStorage == {Absent, Malformed, Stored(StoredList(maxLocalStorageSize))}

\* The items on which a storage operation of persistToLocalStorage fails:
\* the read, the parse or the write
FailingStorage ==
    {Denied, Malformed, Full(StoredList(maxLocalStorageSize))}

\* The record kept in `last`: op is the job, level and console the level of
\* a log call and the console channel it wrote, persistFailed whether
\* persistToLocalStorage caught a failure, flush what a call of
\* flushPendingLogs did in this job, batch the batch it took (or the batch of
\* the request that settled), dropped the entries a re-queue cut off, outcome
\* how the request settled, awaited whether sendLogsToBackend awaited it,
\* result the boolean sendLogsToBackend returned and steps what a log call
\* did, in the order in which it did it
NoJob ==
    [op |-> "init", level |-> "none", console |-> "none",
     persistFailed |-> FALSE, flush |-> "none", batch |-> <<>>,
     dropped |-> <<>>, outcome |-> "none", awaited |-> FALSE,
     result |-> "none", steps |-> <<>>]

\* An optional argument: <<>> when it is left out, <<v>> when v is passed
Undefined == <<>>

\* The record kept in `query`: the arguments of the call and the array
\* returned
NoQuery ==
    [asked |-> FALSE, level |-> Undefined, limit |-> Undefined,
     result |-> <<>>]

\* The lists an earlier session may have stored: up to MaxStored enriched
\* entries, each of level warn or error
StoredLists ==
    UNION {{[i \in 1..k |-> [id |-> i - k, level |-> lv[i], enriched |-> TRUE]]
               : lv \in [1..k -> {"warn", "error"}]} : k \in 0..MaxStored}

-----------------------------------------------------------------------------
(* The Logger's methods as functions of the state they read *)

\* loadFromLocalStorage: the history the constructor starts with
loadFromLocalStorage(window, item) ==
    IF ~window THEN <<>>
    ELSE IF item.kind \in {"list", "full"}
    THEN SliceTail(item.logs, maxHistorySize)
    ELSE <<>>

\* JSON.parse(stored) throws on a malformed item
ParseThrows(item) == item.kind = "malformed"

\* localStorage.getItem(key) throws
ReadThrows(item) == item.kind = "denied"

\* localStorage.setItem(key, value) throws
WriteThrows(item) == item.kind = "full"

\* A statement inside the try block of persistToLocalStorage throws
PersistThrows(item) ==
    ReadThrows(item) \/ ParseThrows(item) \/ WriteThrows(item)

PersistCatchesNothing(item) == FALSE

\* The catch block of persistToLocalStorage takes whatever the try block
\* throws and only writes a console warning
PersistCatches(item) == TRUE

persistKeepOldest(window, item, entry) ==
    IF ~window THEN item
    ELSE IF item.kind \notin {"absent", "list"} THEN item
    ELSE LET logs == Append(item.logs, [entry EXCEPT !.enriched = TRUE])
         IN  [kind |-> "list",
              logs |-> SubSeq(logs, 1, Min(500, Len(logs)))]

\* persistToLocalStorage: the item after the call
persistToLocalStorage(window, item, entry) ==
    IF ~window THEN item
    ELSE IF PersistThrows(item) THEN item
    ELSE LET logs == Append(item.logs, EnrichedEntry(entry))
         IN  IF Len(logs) > maxLocalStorageSize
             THEN Stored(SliceTail(logs, maxLocalStorageSize))
             ELSE Stored(logs)

PushHistoryPop(history, entry) ==
    LET pushed == Append(history, entry)
    IN  IF Len(pushed) > maxHistorySize
        THEN SubSeq(pushed, 1, Len(pushed) - 1) ELSE pushed

\* logHistory.push(entry) and the shift() that follows it
PushHistory(history, entry) ==
    LET pushed == Append(history, entry)
    IN  IF Len(pushed) > maxHistorySize THEN Shift(pushed) ELSE pushed

IsPersistedInfo(level) == level \in {"error", "warn", "info"}

\* entry.level === 'error' || entry.level === 'warn'
IsPersisted(level) == level \in {"error", "warn"}

RequeuePendingFirst(logsToSend, pending) ==
    SliceHead(pending \o logsToSend, RetryCap)

RequeueKeepNewest(logsToSend, pending) ==
    SliceTail(logsToSend \o pending, RetryCap)

RequeueNoCap(logsToSend, pending) == logsToSend \o pending

\* [...logsToSend, ...this.pendingLogs].slice(0, 100)
Requeue(logsToSend, pending) == SliceHead(logsToSend \o pending, RetryCap)

\* What Requeue cuts off
Overflow(logsToSend, pending) ==
    SubSeq(logsToSend \o pending, RetryCap + 1, Len(logsToSend) + Len(pending))

ClearedNot(pending) == pending

\* this.pendingLogs right after the snapshot: this.pendingLogs = []
Cleared(pending) == <<>>

\* flushPendingLogs up to its await, called with pendingLogs = pending:
\* "noop" when there is nothing to send, "async" when the request is under
\* way (the method is suspended at the await), "threw" when building or
\* issuing the request threw inside the try block, which runs the catch
\* block at once
flushPendingLogs(fetch, pending) ==
    IF Len(pending) = 0
    THEN [flush |-> "noop", pending |-> pending, batch |-> <<>>,
          dropped |-> <<>>]
    ELSE IF fetch
    THEN [flush |-> "async", pending |-> Cleared(pending), batch |-> pending,
          dropped |-> <<>>]
    ELSE [flush |-> "threw", pending |-> Requeue(pending, Cleared(pending)),
          batch |-> pending, dropped |-> Overflow(pending, Cleared(pending))]

NoFlush(pending) ==
    [flush |-> "none", pending |-> pending, batch |-> <<>>, dropped |-> <<>>]

OverThresholdStrict(pending) == Len(pending) > FlushThreshold

\* this.pendingLogs.length >= 10 after the push
OverThreshold(pending) == Len(pending) >= FlushThreshold

\* addToPendingLogs
addToPendingLogs(fetch, pending, entry) ==
    LET pushed == Append(pending, entry)
    IN  IF OverThreshold(pushed) THEN flushPendingLogs(fetch, pushed)
        ELSE NoFlush(pushed)

\* if (level): a level was passed (every LogLevel is a non-empty string)
LevelGiven(level) == level # Undefined

\* if (limit): a limit was passed and it is not 0
LimitGiven(limit) == limit # Undefined /\ limit[1] # 0

\* getHistory(level, limit): the array it returns
getHistory(history, level, limit) ==
    LET filtered == IF LevelGiven(level)
                    THEN SelectSeq(history, LAMBDA e : e.level = level[1])
                    ELSE history
    IN  IF LimitGiven(limit) THEN SliceTail(filtered, limit[1]) ELSE filtered

ConsoleChannelInfoAlways(development, level) ==
    IF ~development /\ level = "debug" THEN "none" ELSE level

\* The console channel log() writes to, "none" when it writes nothing
ConsoleChannel(development, level) ==
    IF ~development /\ level # "error" /\ level # "warn" THEN "none"
    ELSE IF level = "debug" THEN (IF development THEN "debug" ELSE "none")
    ELSE level

LogStepsConsoleFirst(level, flush, channel) ==
    (IF channel # "none" THEN <<"console">> ELSE <<>>)
    \o <<"history">>
    \o (IF level \in {"error", "warn"} THEN <<"persist", "enqueue">> ELSE <<>>)
    \o (IF flush # "none" THEN <<"flush">> ELSE <<>>)

\* What log() does, in the order of its statements: addToHistory (the push
\* to logHistory, then for warn and error persistToLocalStorage and
\* addToPendingLogs, which may call flushPendingLogs), then the console write
LogSteps(level, flush, channel) ==
    <<"history">>
    \o (IF IsPersisted(level) THEN <<"persist", "enqueue">> ELSE <<>>)
    \o (IF flush # "none" THEN <<"flush">> ELSE <<>>)
    \o (IF channel # "none" THEN <<"console">> ELSE <<>>)

\* A request under way: the batch it owns, what called flushPendingLogs,
\* whether sendLogsToBackend awaits it, and nLogs when it was issued
Request(batch, origin, awaited, at) ==
    [batch |-> batch, origin |-> origin, awaited |-> awaited, sentAt |-> at]

Issued(f, origin, awaited, at) ==
    IF f.flush = "async" THEN {Request(f.batch, origin, awaited, at)} ELSE {}

Outage == transport # "up"

LogBudget == IF Outage THEN MaxLogs ELSE MaxLogsUp

OtherBudget == IF Outage THEN 0 ELSE MaxOther

InFlightBudget == IF Outage THEN MaxInFlightOutage ELSE MaxInFlight

CanIssue(f) == f.flush = "async" => Cardinality(inflight) < InFlightBudget

\* A callback, event or call that finds entries to send uses up one of
\* MaxCalls
CanCall == pendingLogs = <<>> \/ nCalls < MaxCalls

Called(f) == IF f.flush = "noop" THEN nCalls ELSE nCalls + 1

-----------------------------------------------------------------------------
(* The state after the constructor *)

Init ==
    /\ hasWindow \in BOOLEAN
    /\ transport \in {"none", "down", "up"}
    /\ isDevelopment \in BOOLEAN
    /\ storage \in (IF hasWindow THEN InitialStorage ELSE {Absent})
    /\ logHistory = loadFromLocalStorage(hasWindow, storage)
    /\ appended = logHistory
    /\ pendingLogs = <<>>
    /\ sendLogsTimer = hasWindow
    /\ inflight = {}
    /\ unloaded = FALSE
    /\ nLogs = 0
    /\ nOther = 0
    /\ nCalls = 0
    /\ last = NoJob
    /\ query = NoQuery
    /\ delivered = {}
    /\ lost = {}
    /\ quiet = FALSE

-----------------------------------------------------------------------------
(* The jobs *)

\* debug(), info(), warn() or error(): log() and all it calls
Log(level) ==
    /\ nLogs < LogBudget
    /\ level = "warn" \/ nOther < OtherBudget
    /\ LET entry == LogEntry(nLogs + 1, level)
           failed == IsPersisted(level) /\ hasWindow /\ PersistThrows(storage)
           \* the call goes on after persistToLocalStorage
           goesOn == failed => PersistCatches(storage)
           f == IF IsPersisted(level) /\ goesOn
                THEN addToPendingLogs(hasFetch, pendingLogs, entry)
                ELSE NoFlush(pendingLogs)
           channel == IF goesOn THEN ConsoleChannel(isDevelopment, level)
                      ELSE "none"
           item == IF IsPersisted(level)
                   THEN persistToLocalStorage(hasWindow, storage, entry)
                   ELSE storage
       IN  /\ CanIssue(f)
           /\ logHistory' = PushHistory(logHistory, entry)
           /\ appended' = Append(appended, entry)
           /\ storage' = item
           /\ pendingLogs' = f.pending
           /\ inflight' = inflight \cup Issued(f, "size", FALSE, nLogs + 1)
           /\ last' = [NoJob EXCEPT
                  !.op = "log", !.level = level,
                  !.console = channel,
                  !.persistFailed = failed,
                  !.steps = LogSteps(level, f.flush, channel),
                  !.flush = f.flush, !.batch = f.batch,
                  !.dropped = f.dropped]
           /\ lost' = lost \cup Ids(f.dropped)
    /\ nLogs' = nLogs + 1
    /\ nOther' = IF level = "warn" THEN nOther ELSE nOther + 1
    /\ UNCHANGED <<host, query, quiet, unloaded, nCalls, delivered>>

\* The setInterval callback of startAutoSend
TimerTick ==
    /\ sendLogsTimer
    /\ CanCall
    /\ LET f == flushPendingLogs(hasFetch, pendingLogs)
       IN  /\ CanIssue(f)
           /\ pendingLogs' = f.pending
           /\ inflight' = inflight \cup Issued(f, "timer", FALSE, nLogs)
           /\ nCalls' = Called(f)
           /\ last' = [NoJob EXCEPT !.op = "tick", !.flush = f.flush,
                                    !.batch = f.batch, !.dropped = f.dropped]
           /\ lost' = lost \cup Ids(f.dropped)
    /\ UNCHANGED <<host, query, quiet, storage, logHistory, appended,
                   unloaded, nLogs, nOther, delivered>>

\* The beforeunload listener the constructor registers
BeforeUnload ==
    /\ hasWindow
    /\ CanCall
    /\ LET f == flushPendingLogs(hasFetch, pendingLogs)
       IN  /\ CanIssue(f)
           /\ pendingLogs' = f.pending
           /\ inflight' = inflight \cup Issued(f, "unload", FALSE, nLogs)
           /\ nCalls' = Called(f)
           /\ last' = [NoJob EXCEPT !.op = "unload", !.flush = f.flush,
                                    !.batch = f.batch, !.dropped = f.dropped]
           /\ lost' = lost \cup Ids(f.dropped)
    /\ unloaded' = TRUE
    /\ UNCHANGED <<host, query, quiet, storage, logHistory, appended, nLogs,
                   nOther, delivered>>

\* pendingLogs.length === 0, as sendLogsToBackend returns it
Drained(pending) == IF Len(pending) = 0 THEN "true" ELSE "false"

\* sendLogsToBackend up to its await; when flushPendingLogs did not suspend
\* the method goes on to its return statement with no job in between
SendLogsToBackend ==
    /\ CanCall
    /\ LET f == flushPendingLogs(hasFetch, pendingLogs)
       IN  /\ CanIssue(f)
           /\ pendingLogs' = f.pending
           /\ inflight' = inflight \cup Issued(f, "manual", TRUE, nLogs)
           /\ nCalls' = Called(f)
           /\ last' = [NoJob EXCEPT
                  !.op = "send", !.flush = f.flush, !.batch = f.batch,
                  !.dropped = f.dropped, !.awaited = TRUE,
                  !.result = IF f.flush = "async" THEN "none"
                             ELSE Drained(f.pending)]
           /\ lost' = lost \cup Ids(f.dropped)
    /\ UNCHANGED <<host, query, quiet, storage, logHistory, appended,
                   unloaded, nLogs, nOther, delivered>>

\* How a request can settle: an ok response, a response that is not ok, or
\* a rejected fetch
Outcomes == {"ok", "notok", "rejected"}

AfterSettleAlways(r, outcome, pending) == Requeue(r.batch, pending)

AfterSettleRejectedLost(r, outcome, pending) ==
    IF outcome = "notok" THEN SliceHead(r.batch \o pending, 100) ELSE pending

\* pendingLogs after the rest of flushPendingLogs has run
AfterSettle(r, outcome, pending) ==
    IF outcome = "ok" THEN pending ELSE Requeue(r.batch, pending)

\* The continuation of flushPendingLogs when its fetch settles, and after it
\* the continuation of sendLogsToBackend when that is what awaited it
Settle(r, outcome) ==
    /\ r \in inflight
    /\ transport = "down" => outcome # "ok"
    /\ inflight' = inflight \ {r}
    /\ pendingLogs' = AfterSettle(r, outcome, pendingLogs)
    /\ last' = [NoJob EXCEPT
           !.op = "settle", !.batch = r.batch, !.outcome = outcome,
           !.dropped = IF outcome = "ok" THEN <<>>
                       ELSE Overflow(r.batch, pendingLogs),
           !.awaited = r.awaited,
           !.result = IF r.awaited
                      THEN Drained(AfterSettle(r, outcome, pendingLogs))
                      ELSE "none"]
    /\ delivered' = IF outcome = "ok" THEN delivered \cup Ids(r.batch)
                    ELSE delivered
    /\ lost' = IF outcome = "ok" THEN lost
               ELSE lost \cup Ids(Overflow(r.batch, pendingLogs))
    /\ UNCHANGED <<host, query, quiet, storage, logHistory, appended,
                   unloaded, nLogs, nOther, nCalls>>

Next ==
    \/ \E level \in LogLevel : Log(level)
    \/ TimerTick
    \/ BeforeUnload
    \/ SendLogsToBackend
    \/ \E r \in inflight, outcome \in Outcomes : Settle(r, outcome)

Spec == Init /\ [][Next]_vars

\* The same logger built in a browser whose storage fails: the read, the
\* parse or the write of persistToLocalStorage throws
InitStorage ==
    /\ hasWindow = TRUE
    /\ transport = "up"
    /\ isDevelopment \in BOOLEAN
    /\ storage \in FailingStorage
    /\ logHistory = loadFromLocalStorage(hasWindow, storage)
    /\ appended = logHistory
    /\ pendingLogs = <<>>
    /\ sendLogsTimer = hasWindow
    /\ inflight = {}
    /\ unloaded = FALSE
    /\ nLogs = 0
    /\ nOther = 0
    /\ nCalls = 0
    /\ last = NoJob
    /\ query = NoQuery
    /\ delivered = {}
    /\ lost = {}
    /\ quiet = FALSE

SpecStorage == InitStorage /\ [][Next]_vars

\* The logger built in a browser that holds a stored list, its history
\* rehydrated from it
InitQuery ==
    /\ hasWindow = TRUE
    /\ transport = "up"
    /\ isDevelopment = FALSE
    /\ storage \in {Stored(logs) : logs \in StoredLists}
    /\ logHistory = loadFromLocalStorage(hasWindow, storage)
    /\ appended = logHistory
    /\ pendingLogs = <<>>
    /\ sendLogsTimer = hasWindow
    /\ inflight = {}
    /\ unloaded = FALSE
    /\ nLogs = 0
    /\ nOther = 0
    /\ nCalls = 0
    /\ last = NoJob
    /\ query = NoQuery
    /\ delivered = {}
    /\ lost = {}
    /\ quiet = FALSE

\* A call of getHistory
GetHistory(level, limit) ==
    /\ query' = [asked |-> TRUE, level |-> level, limit |-> limit,
                 result |-> getHistory(logHistory, level, limit)]
    /\ UNCHANGED <<host, storage, logHistory, pendingLogs, inflight, unloaded,
                   nLogs, nOther, nCalls, appended, last, delivered, lost,
                   quiet>>

NextQuery ==
    \E level \in {Undefined} \cup {<<l>> : l \in LogLevel},
       limit \in {Undefined} \cup {<<n>> : n \in 0..MaxLimit} :
        GetHistory(level, limit)

SpecQuery == InitQuery /\ [][NextQuery]_vars

\* The logger built in a browser, in an environment that settles at some
\* moment: after it no warn or error call is made and every delivery succeeds
InitLive ==
    /\ hasWindow = TRUE
    /\ transport = "up"
    /\ isDevelopment = FALSE
    /\ storage = Absent
    /\ logHistory = loadFromLocalStorage(hasWindow, storage)
    /\ appended = logHistory
    /\ pendingLogs = <<>>
    /\ sendLogsTimer = hasWindow
    /\ inflight = {}
    /\ unloaded = FALSE
    /\ nLogs = 0
    /\ nOther = 0
    /\ nCalls = 0
    /\ last = NoJob
    /\ query = NoQuery
    /\ delivered = {}
    /\ lost = {}
    /\ quiet = FALSE

\* The environment settles
Quiesce ==
    /\ ~quiet
    /\ quiet' = TRUE
    /\ last' = [NoJob EXCEPT !.op = "quiesce"]
    /\ UNCHANGED <<host, query, storage, logHistory, pendingLogs, inflight,
                   unloaded, nLogs, nOther, nCalls, appended, delivered, lost>>

\* A log call the environment still makes
LogLive(level) == (quiet => ~IsPersisted(level)) /\ Log(level)

\* The setInterval callback once the environment has settled: the timer is
\* never cleared, so the callback keeps running every 30 seconds
TimerTickQuiet ==
    /\ quiet
    /\ sendLogsTimer
    /\ LET f == flushPendingLogs(hasFetch, pendingLogs)
       IN  /\ CanIssue(f)
           /\ pendingLogs' = f.pending
           /\ inflight' = inflight \cup Issued(f, "timer", FALSE, nLogs)
           /\ last' = [NoJob EXCEPT !.op = "tick", !.flush = f.flush,
                                    !.batch = f.batch, !.dropped = f.dropped]
           /\ lost' = lost \cup Ids(f.dropped)
    /\ UNCHANGED <<host, query, quiet, storage, logHistory, appended,
                   unloaded, nLogs, nOther, nCalls, delivered>>

\* The continuation of a request as the environment lets it settle
SettleLive(r, outcome) == (quiet => outcome = "ok") /\ Settle(r, outcome)

NextLive ==
    \/ \E level \in LogLevel : LogLive(level)
    \/ TimerTick
    \/ TimerTickQuiet
    \/ BeforeUnload
    \/ SendLogsToBackend
    \/ \E r \in inflight, outcome \in Outcomes : SettleLive(r, outcome)
    \/ Quiesce

\* The timer keeps firing and every fetch settles
SpecLive ==
    /\ InitLive
    /\ [][NextLive]_vars
    /\ WF_vars(TimerTickQuiet)
    /\ WF_vars(\E r \in inflight, outcome \in Outcomes : SettleLive(r, outcome))

-----------------------------------------------------------------------------
(* Vocabulary of the properties *)

\* s is the first n elements of t, or all of t when t is shorter
IsHeadOf(s, t, n) ==
    /\ Len(s) = Min(n, Len(t))
    /\ \A i \in 1..Len(s) : s[i] = t[i]

\* s is the last n elements of t, or all of t when t is shorter
IsTailOf(s, t, n) ==
    /\ Len(s) = Min(n, Len(t))
    /\ \A i \in 1..Len(s) : s[i] = t[Len(t) - Len(s) + i]

\* The step is the continuation of request r
Settles(r) == r \in inflight /\ r \notin inflight'

\* A delivery failed in the state reached: a request settled without an ok
\* response, or issuing the request threw
FailedSettle == last.op = "settle" /\ last.outcome # "ok"

Threw == last.flush = "threw"

\* The step is a log call
LogStep == nLogs' = nLogs + 1

\* The entry a log call creates
Newest == appended'[Len(appended')]

\* The step takes a batch out of pendingLogs: it issues a request or the
\* attempt to issue one throws
TakesBatch == inflight' \ inflight # {} \/ last'.flush = "threw"

\* Entries enqueued in this session
Enqueued == {i \in 1..Len(appended) :
                appended[i].id > 0 /\ appended[i].level \in {"warn", "error"}}

-----------------------------------------------------------------------------
(* Properties *)

\* C1: when a delivery fails, pendingLogs becomes the failed batch followed
\* by what pendingLogs held at that moment, cut to the first 100 entries; the
\* batch holds no entry enqueued after the request was issued.
C1_FailedBatchFirst ==
    [] [/\ \A r \in inflight :
             (Settles(r) /\ last'.outcome # "ok") =>
                 /\ IsHeadOf(pendingLogs', r.batch \o pendingLogs, 100)
                 /\ \A e \in Range(r.batch) : e.id <= r.sentAt
                 /\ \A i \in 1..Len(pendingLogs) :
                        (pendingLogs[i].id > r.sentAt) =>
                            (\A e \in Range(r.batch) : e.id < pendingLogs[i].id)
        /\ last'.flush = "threw" =>
             IsHeadOf(pendingLogs', last'.batch, 100)]_vars

\* C1 witness: a request failed while entries enqueued after it was issued
\* were waiting, and the re-queue cut some of them off.
C1_Witness ==
    /\ FailedSettle
    /\ last.dropped # <<>>
    /\ Len(last.batch) < Len(pendingLogs)
    /\ \E e \in Range(last.dropped) :
           \A b \in Range(last.batch) : b.id < e.id

\* C2 as stated: when the failed batch and pendingLogs together exceed 100
\* entries, the most recent 100 are kept and the oldest are dropped.
C2_KeepsMostRecent ==
    [] [/\ \A r \in inflight :
             (/\ Settles(r) /\ last'.outcome # "ok"
              /\ Len(r.batch) + Len(pendingLogs) > 100) =>
                 IsTailOf(pendingLogs', r.batch \o pendingLogs, 100)
        /\ (last'.flush = "threw" /\ Len(last'.batch) > 100) =>
             IsTailOf(pendingLogs', last'.batch, 100)]_vars

\* C2 amended: when the failed batch and pendingLogs together exceed 100
\* entries, the first 100 entries of the combined list (failed batch first)
\* are kept and the entries after them, at the end of the list, are dropped.
C2_KeepsFirstHundred ==
    [] [/\ \A r \in inflight :
             (/\ Settles(r) /\ last'.outcome # "ok"
              /\ Len(r.batch) + Len(pendingLogs) > 100) =>
                 LET all == r.batch \o pendingLogs
                 IN  /\ Len(pendingLogs') = 100
                     /\ \A i \in 1..100 : pendingLogs'[i] = all[i]
                     /\ \A j \in 101..Len(all) :
                            all[j] \notin Range(pendingLogs')
        /\ (last'.flush = "threw" /\ Len(last'.batch) > 100) =>
             /\ Len(pendingLogs') = 100
             /\ \A i \in 1..100 : pendingLogs'[i] = last'.batch[i]
             /\ \A j \in 101..Len(last'.batch) :
                    last'.batch[j] \notin Range(pendingLogs')]_vars

\* C2 witness: a re-queue of more than 100 entries has cut the list.
C2_Witness ==
    /\ FailedSettle \/ Threw
    /\ last.dropped # <<>>
    /\ Len(pendingLogs) = 100

\* C3: pendingLogs never holds more than 100 entries.
C3_PendingAtMostCap == Len(pendingLogs) <= 100

\* C3 witness: pendingLogs is full after a re-queue that had to cut.
C3_Witness == Len(pendingLogs) = 100 /\ last.dropped # <<>>

\* C4: when a delivery succeeds, the continuation leaves pendingLogs as it
\* was; no entry of the sent batch is in pendingLogs or in a request
\* afterwards.
C4_SuccessLeavesPending ==
    [][\A r \in inflight :
          (Settles(r) /\ last'.outcome = "ok") =>
              /\ pendingLogs' = pendingLogs
              /\ Ids(r.batch) \cap Ids(pendingLogs') = {}
              /\ \A q \in inflight' : Ids(r.batch) \cap Ids(q.batch) = {}]_vars

\* C4 witness: a delivery succeeded while entries enqueued during the
\* attempt were waiting.
C4_Witness ==
    /\ last.op = "settle" /\ last.outcome = "ok"
    /\ pendingLogs # <<>>
    /\ \A e \in Range(pendingLogs), b \in Range(last.batch) : b.id < e.id

\* C5: a warn or error log call takes a batch exactly when pendingLogs holds
\* 10 or more entries after the append, and the batch is then all of them; a
\* debug or info call takes none.  From an empty queue with nothing else
\* sending, the first nine enqueues take no batch and the tenth takes the
\* one batch of these ten.
C5_FlushAtThreshold ==
    /\ [][LogStep =>
            IF Newest.level \in {"warn", "error"}
            THEN /\ TakesBatch <=> Len(pendingLogs) + 1 >= 10
                 /\ TakesBatch =>
                        /\ last'.batch = Append(pendingLogs, Newest)
                        /\ \A r \in inflight' \ inflight :
                               r.batch = last'.batch
                 /\ ~TakesBatch => pendingLogs' = Append(pendingLogs, Newest)
            ELSE ~TakesBatch]_vars
    /\ [](nCalls = 0 /\ Cardinality(Enqueued) < 10 =>
            inflight = {} /\ Len(pendingLogs) = Cardinality(Enqueued))
    /\ [](nCalls = 0 /\ Cardinality(Enqueued) = 10 /\ last.op = "log"
              /\ last.level \in {"warn", "error"} =>
            /\ last.flush \in {"async", "threw"}
            /\ Len(last.batch) = 10
            /\ Cardinality(inflight) <= 1)

\* C5 witness: the tenth enqueue into a queue that was empty at the start
\* has issued the one request, carrying the ten entries.
C5_Witness ==
    /\ nCalls = 0 /\ Cardinality(Enqueued) = 10
    /\ last.op = "log" /\ last.flush = "async"
    /\ Cardinality(inflight) = 1
    /\ \A r \in inflight : Len(r.batch) = 10 /\ r.origin = "size"
    /\ pendingLogs = <<>>

\* C6 as stated: sendLogsToBackend returns true only when pendingLogs is
\* empty, and returns false only when a delivery failed and its batch was
\* re-queued; when the delivery it awaited succeeded it does not return false.
C6_FalseOnlyAfterFailure ==
    /\ last.result = "true" => pendingLogs = <<>>
    /\ last.result = "false" => (FailedSettle \/ Threw)

\* C7 as stated: a run of the beforeunload listener takes at most one batch,
\* and once the listener has run no job takes a batch any more.
C7_NoFlushAfterTeardown ==
    [][/\ Cardinality(inflight' \ inflight) <= 1
       /\ unloaded => ~TakesBatch]_vars

\* C8: the batches of the requests under way and pendingLogs never share an
\* entry, and a batch holds no entry created after its request was issued; a
\* job that issues a request gives it all of pendingLogs as it stood at that
\* moment (with the entry the job itself appended) and leaves pendingLogs
\* empty; an entry logged while a request is under way is not in its batch.
C8_BatchOwnership ==
    /\ [](/\ \A r \in inflight :
                /\ Ids(r.batch) \cap Ids(pendingLogs) = {}
                /\ Cardinality(Ids(r.batch)) = Len(r.batch)
                /\ r.batch # <<>>
                /\ \A e \in Range(r.batch) : e.id <= r.sentAt
          /\ \A r, q \in inflight :
                r # q => Ids(r.batch) \cap Ids(q.batch) = {})
    /\ [][\A r \in inflight' \ inflight :
             /\ pendingLogs' = <<>>
             /\ r.sentAt = nLogs'
             /\ r.batch = IF LogStep THEN Append(pendingLogs, Newest)
                          ELSE pendingLogs]_vars
    /\ [][LogStep =>
             \A r \in inflight \cap inflight' :
                 Newest.id \notin Ids(r.batch)]_vars

\* C8 witness: two requests are under way, the later one issued by the size
\* threshold with a batch whose entries were all logged while the earlier one
\* was under way.
C8_Witness ==
    /\ Cardinality(inflight) = 2
    /\ \E r, q \in inflight :
           /\ r.sentAt < q.sentAt
           /\ \A e \in Range(q.batch) : e.id > r.sentAt
           /\ Len(q.batch) >= 10

\* C9: logHistory never holds more than 100 entries and is always the last
\* 100 (or all, while there are fewer) of the entries put into it, in the
\* order they were put in.
C9_HistoryKeepsNewest ==
    /\ Len(logHistory) <= 100
    /\ IsTailOf(logHistory, appended, 100)

\* C9 witness: a log call has pushed an entry out of a full history.
C9_Witness ==
    /\ last.op = "log"
    /\ Len(appended) > 100
    /\ Len(logHistory) = 100
    /\ logHistory[100].id = nLogs

\* C10: every entry in the stored item, in pendingLogs and in a batch has
\* level warn or error; a debug or info call appends its entry to logHistory
\* and leaves the stored item, pendingLogs and the requests as they were.
C10_OnlyWarnErrorLeaveMemory ==
    /\ [](\A e \in Range(storage.logs) \cup Range(pendingLogs)
                    \cup UNION {Range(r.batch) : r \in inflight} :
              e.level \in {"warn", "error"})
    /\ [][(LogStep /\ Newest.level \in {"debug", "info"}) =>
             /\ storage' = storage
             /\ pendingLogs' = pendingLogs
             /\ inflight' = inflight
             /\ logHistory'[Len(logHistory')] = Newest]_vars

\* C10 witness: a debug or info call was made while warn or error entries
\* were stored and waiting.
C10_Witness ==
    /\ last.op = "log" /\ last.level \in {"debug", "info"}
    /\ pendingLogs # <<>>
    /\ storage.logs # <<>>
    /\ logHistory[Len(logHistory)].level = last.level

\* C11: the store never holds more than 500 entries; a warn/error log call
\* in a host whose store reads as a list (or is absent) leaves in it the last
\* 500 of the stored entries followed by the enriched new entry, in insertion
\* order, so that on overflow the oldest entry is the one dropped.
C11_StoreKeepsNewest ==
    [] [/\ Len(storage.logs) <= 500
        /\ (/\ LogStep
            /\ hasWindow
            /\ storage.kind \in {"absent", "list"}
            /\ Newest.level \in {"warn", "error"})
           => /\ storage'.kind = "list"
              /\ Len(storage'.logs) <= 500
              /\ IsTailOf(storage'.logs,
                          Append(storage.logs,
                                 [Newest EXCEPT !.enriched = TRUE]), 500)]_vars

\* A log call found 500 stored entries: the store still holds 500, the new
\* entry last, and the oldest stored entry (id -499) is gone
C11_Witness ==
    /\ last.op = "log"
    /\ last.level \in {"warn", "error"}
    /\ storage.kind = "list"
    /\ Len(storage.logs) = 500
    /\ storage.logs[500].id = nLogs
    /\ storage.logs[1].id = nLogs - 499
    /\ nLogs >= 1

\* C12: after a warn/error log call in a host whose storage works and whose
\* item was absent or did not parse, the item is a list that ends with the
\* enriched new entry.
C12_CorruptTreatedAsEmpty ==
    (/\ last.op = "log"
     /\ last.level \in {"warn", "error"}
     /\ hasWindow
     /\ storage.kind \notin {"denied", "full"})
    => /\ storage.kind = "list"
       /\ storage.logs # <<>>
       /\ storage.logs[Len(storage.logs)] =
              [id |-> nLogs, level |-> last.level, enriched |-> TRUE]

\* C13: a warn/error log call during which the read, the parse or the write
\* of the stored item fails returns normally (it goes on to its console
\* write); logHistory keeps what it held, within its capacity, and gains the
\* new entry; the entry is enqueued, and sent with the queue when that makes
\* ten.
C13_StorageFailureContained ==
    [] [(LogStep /\ last'.persistFailed) =>
           /\ last'.console = Newest.level
           /\ IsTailOf(logHistory', Append(logHistory, Newest), 100)
           /\ IF Len(pendingLogs) + 1 >= 10
              THEN /\ last'.flush = "async"
                   /\ last'.batch = Append(pendingLogs, Newest)
                   /\ \E r \in inflight' \ inflight : r.batch = last'.batch
              ELSE /\ last'.flush = "none"
                   /\ pendingLogs' = Append(pendingLogs, Newest)]_vars

\* A log call whose storage write failed pushed the oldest rehydrated entry
\* out of a full history and sent the queue it brought to ten entries
C13_Witness ==
    /\ last.op = "log"
    /\ last.persistFailed
    /\ storage.kind = "full"
    /\ last.flush = "async"
    /\ Len(last.batch) = 10
    /\ Len(logHistory) = 100
    /\ logHistory[100].id = nLogs

\* C14: a log call outside development mode writes warn and error to the
\* console channel of that name and writes nothing for info and debug, whose
\* entries are in logHistory all the same; in development mode every level is
\* written to the channel of its name; isDevelopment never changes.
C14_ConsoleRouting ==
    /\ [](last.op = "log" =>
             /\ last.console =
                    IF isDevelopment \/ last.level \in {"warn", "error"}
                    THEN last.level ELSE "none"
             /\ logHistory[Len(logHistory)] =
                    [id |-> nLogs, level |-> last.level, enriched |-> FALSE])
    /\ [][isDevelopment' = isDevelopment]_vars

\* An info or debug call outside development mode wrote nothing and its
\* entry is the newest of logHistory
C14_Witness ==
    /\ ~isDevelopment
    /\ last.op = "log"
    /\ last.level \in {"info", "debug"}
    /\ last.console = "none"
    /\ logHistory[Len(logHistory)].id = nLogs
    /\ logHistory[Len(logHistory)].level = last.level

\* The steps of a log call among which a comes before b whenever both happen
Before(a, b) ==
    \A i, j \in 1..Len(last.steps) :
        (last.steps[i] = a /\ last.steps[j] = b) => i < j

\* C16 as stated: in a log call the console write comes before the append to
\* logHistory, the append before persisting and enqueueing, and those before
\* a flush the queue's size sets off.
C16_ConsoleFirst ==
    last.op = "log" =>
        /\ Before("console", "history")
        /\ Before("history", "persist")
        /\ Before("history", "enqueue")
        /\ Before("persist", "flush")
        /\ Before("enqueue", "flush")

\* C16: in a log call the append to logHistory comes first, then persisting
\* and enqueueing, then a flush the queue's size sets off, and the console
\* write comes last.
C16_ConsoleLast ==
    last.op = "log" =>
        /\ last.steps # <<>>
        /\ last.steps[1] = "history"
        /\ Before("history", "persist")
        /\ Before("persist", "enqueue")
        /\ Before("enqueue", "flush")
        /\ Before("history", "console")
        /\ Before("persist", "console")
        /\ Before("enqueue", "console")
        /\ Before("flush", "console")

\* A log call did all five things
C16_Witness ==
    /\ last.op = "log"
    /\ last.flush = "async"
    /\ last.console = "warn"
    /\ {"history", "persist", "enqueue", "flush", "console"}
           \subseteq Range(last.steps)

\* The entries of logHistory whose level is the one asked for, all of them
\* when no level was passed
Matching ==
    IF query.level = <<>> THEN logHistory
    ELSE SelectSeq(logHistory, LAMBDA e : e.level = query.level[1])

\* C15: getHistory(level, limit) returns the entries of logHistory whose
\* level is exactly the one passed, cut to the last `limit` of them when a
\* limit is passed (0 included), in the order of logHistory.
C15_HistoryQuery ==
    query.asked =>
        IF query.limit = <<>> THEN query.result = Matching
        ELSE /\ Len(query.result) <= query.limit[1]
             /\ IsTailOf(query.result, Matching, query.limit[1])

\* C17: a call of flushPendingLogs ends in exactly one of three ways.  With
\* nothing pending it is a no-op: no request, nothing changed.  Otherwise it
\* takes the whole queue as its batch, and either the delivery succeeds and
\* the batch is discarded (pendingLogs is left as the continuation found it),
\* or the batch is re-queued in front of pendingLogs, cut to 100: a response
\* that is not ok, a rejected fetch and a fetch that throws all leave the same
\* pendingLogs.  No job ends with an exception of flushPendingLogs.
C17_FlushOutcomes ==
    /\ [](/\ last.op \in {"tick", "unload", "send"} =>
                 last.flush \in {"noop", "async", "threw"}
          /\ last.op = "log" => last.flush \in {"none", "async", "threw"}
          /\ last.op = "settle" => last.outcome \in {"ok", "notok", "rejected"})
    /\ [] [/\ last'.flush = "noop" =>
                 /\ pendingLogs = <<>> /\ pendingLogs' = <<>>
                 /\ inflight' = inflight
                 /\ storage' = storage /\ logHistory' = logHistory
           /\ (last'.op \in {"tick", "unload", "send"}
                  /\ last'.flush \in {"async", "threw"}) =>
                 /\ pendingLogs # <<>>
                 /\ last'.batch = pendingLogs
           /\ last'.flush = "async" =>
                 /\ pendingLogs' = <<>>
                 /\ \E r \in inflight' \ inflight : r.batch = last'.batch
           /\ last'.flush = "threw" =>
                 /\ inflight' = inflight
                 /\ IsHeadOf(pendingLogs', last'.batch, 100)
           /\ \A r \in inflight :
                 Settles(r) =>
                    IF last'.outcome = "ok"
                    THEN pendingLogs' = pendingLogs
                    ELSE IsHeadOf(pendingLogs', r.batch \o pendingLogs, 100)]_vars

\* C17 witness: a fetch was rejected while an entry logged during the
\* request was waiting, and the batch is back in front of it.
C17_Witness ==
    /\ last.op = "settle"
    /\ last.outcome = "rejected"
    /\ last.batch # <<>>
    /\ Len(pendingLogs) > Len(last.batch)
    /\ IsHeadOf(last.batch, pendingLogs, Len(last.batch))

\* C18: pendingLogs is in the order in which its entries were enqueued.
C18_PendingChronological ==
    \A i, j \in 1..Len(pendingLogs) :
        i < j => pendingLogs[i].id < pendingLogs[j].id

\* The ids of the entries enqueued in this session
EnqueuedIds == {appended[i].id : i \in Enqueued}

Disjoint(a, b) == a \cap b = {}

\* C19: every entry enqueued is in exactly one place: waiting in pendingLogs,
\* in the batch of one request under way, delivered, or cut off by a
\* re-queue; a batch the endpoint accepts holds no entry delivered before; an
\* entry is cut off only by a re-queue (after a failed delivery) of a
\* combined list longer than 100.
C19_Conservation ==
    /\ [](/\ Ids(pendingLogs)
                \cup UNION {Ids(r.batch) : r \in inflight}
                \cup delivered \cup lost = EnqueuedIds
          /\ Cardinality(Ids(pendingLogs)) = Len(pendingLogs)
          /\ Disjoint(Ids(pendingLogs), delivered \cup lost)
          /\ Disjoint(delivered, lost)
          /\ \A r \in inflight :
                /\ Cardinality(Ids(r.batch)) = Len(r.batch)
                /\ Disjoint(Ids(r.batch),
                            Ids(pendingLogs) \cup delivered \cup lost)
                /\ \A q \in inflight \ {r} :
                      Disjoint(Ids(r.batch), Ids(q.batch)))
    /\ [] [/\ \A r \in inflight :
                 (Settles(r) /\ last'.outcome = "ok") =>
                     /\ Disjoint(Ids(r.batch), delivered)
                     /\ delivered' = delivered \cup Ids(r.batch)
           /\ delivered' # delivered => last'.outcome = "ok"
           /\ lost' # lost =>
                 /\ \/ last'.op = "settle" /\ last'.outcome # "ok"
                    \/ last'.flush = "threw"
                 /\ Len(last'.batch)
                        + (IF last'.op = "settle" THEN Len(pendingLogs) ELSE 0)
                    > 100]_vars

\* C19 witness: of two batches one was delivered and the other, of ten
\* entries, failed and is waiting again.
C19_Witness ==
    /\ delivered # {}
    /\ last.op = "settle" /\ last.outcome # "ok"
    /\ Len(pendingLogs) >= 10
    /\ inflight = {}

\* C20: in a browser (the timer runs), once the environment has settled (no
\* further warn or error call, every delivery succeeds), with the timer
\* callback and the request continuations running fairly, pendingLogs
\* becomes empty and no request stays under way.
C20_EventuallyDrained ==
    (quiet /\ sendLogsTimer) ~> (pendingLogs = <<>> /\ inflight = {})

\* C20 witness: after the environment settled with entries waiting, the
\* timer callback sent them and the delivery emptied the logger.
C20_Witness ==
    /\ quiet
    /\ sendLogsTimer
    /\ last.op = "settle" /\ last.outcome = "ok"
    /\ nCalls = 0
    /\ Len(last.batch) < 10
    /\ last.batch # <<>>
    /\ pendingLogs = <<>>
    /\ inflight = {}

====
